---- MODULE Spec2Model ----
(***************************************************************************)
(* TinyTIFF-Cxx reader (tiff::reader::Reader / ReaderPrivate).             *)
(*                                                                         *)
(* The file is a sequence of bytes; the stream is a cursor plus a failure  *)
(* flag (std::ifstream: a short read sets eofbit|failbit, read<T>() reads   *)
(* only while good(), tellg() is -1 while fail(), seekg() does nothing      *)
(* while fail()).  Multi-byte integers are decoded from the bytes in host  *)
(* memory order and byte-swapped when host and file order differ.  Sample  *)
(* values are kept as their bytes, most significant first, because 32- and *)
(* 64-bit samples do not fit the model checker's integers.                 *)
(***************************************************************************)
EXTENDS Integers, Sequences, FiniteSets, TLC

VARIABLES
    file,        \* the bytes of the file at tiff_path
    exists,      \* whether the file can be opened
    host,        \* the byte order of the machine the reader runs on
    phase,       \* "constructed" | "opened" (open() was called) | "crashed"
    rf,          \* ReaderFile: first_record_offset, next_ifd_offset, file_byte_order, size
    frame,       \* ReaderFile::current_frame
    good,        \* ReaderPrivate::good
    stream,      \* ReaderFile::stream: [pos, fail]
    cf,          \* count_frames() in progress: [active, next_offset, frames, pos]
    ret,         \* what the last public call handed back
    hist,        \* ghost: what the calls so far did
    fixture      \* ghost: how the file was made

vars == <<file, exists, host, phase, rf, frame, good, stream, cf, ret, hist, fixture>>

----------------------------------------------------------------------------
(* Bytes and integers *)

Min(a, b) == IF a <= b THEN a ELSE b
Max(a, b) == IF a >= b THEN a ELSE b

RECURSIVE Zeros(_)
Zeros(n) == IF n <= 0 THEN <<>> ELSE <<0>> \o Zeros(n - 1)

RECURSIVE Reverse(_)
Reverse(s) == IF s = <<>> THEN <<>> ELSE Reverse(Tail(s)) \o <<Head(s)>>

\* the number a sequence of bytes, most significant first, stands for
RECURSIVE ToNat(_)
ToNat(ds) == IF ds = <<>> THEN 0 ELSE ToNat(SubSeq(ds, 1, Len(ds) - 1)) * 256 + ds[Len(ds)]

\* ByteOrder
BigEndian == "BigEndian"
LittleEndian == "LittleEndian"
UnknownOrder == "Unknown"

\* util::get_byte_order: test.l = 1 seen through char c[4]; mem is the host's
\* layout of the long
get_byte_order(mem) ==
    IF mem[4] # 0 /\ mem[3] = 0 /\ mem[2] = 0 /\ mem[1] = 0 THEN BigEndian
    ELSE IF mem[4] = 0 /\ mem[3] = 0 /\ mem[2] = 0 /\ mem[1] # 0 THEN LittleEndian
    ELSE UnknownOrder

\* util::byte_swap<value_t> on the bytes of n, most significant first: the
\* generic template is the identity, the 16/32/64-bit ones move every byte
\* to the mirrored place
byte_swap(ds) ==
    CASE Len(ds) = 2 -> <<ds[2], ds[1]>>
      [] Len(ds) = 4 -> <<ds[4], ds[3], ds[2], ds[1]>>
      [] Len(ds) = 8 -> <<ds[8], ds[7], ds[6], ds[5], ds[4], ds[3], ds[2], ds[1]>>
      [] OTHER -> ds

\* ReaderPrivate::byte_swap_if_need
byte_swap_if_need(c, ds) == IF c.sys # c.ford THEN byte_swap(ds) ELSE ds

\* the bytes of an integer lying in mem on a host of order h, most
\* significant first
FromMem(h, mem) == IF h = BigEndian THEN mem ELSE Reverse(mem)

\* long l = 1 as it lies in the memory of a host of order h (a 4-byte long)
LongOne(h) == IF h = BigEndian THEN <<0, 0, 0, 1>> ELSE <<1, 0, 0, 0>>

----------------------------------------------------------------------------
(* std::ifstream *)

\* stream.clear()
Clear(s) == [s EXCEPT !.fail = FALSE]

\* stream.tellg(): pos_type(-1) while fail()
Tellg(s) == IF s.fail THEN -1 ELSE s.pos

\* stream.seekg(p) and stream.seekg(off, beg): nothing while fail(); a
\* negative target fails and leaves the cursor where it is
SeekBeg(s, p) ==
    IF s.fail THEN s
    ELSE IF p < 0 THEN [s EXCEPT !.fail = TRUE]
    ELSE [s EXCEPT !.pos = p]

\* stream.seekg(off, cur)
SeekCur(s, off) == IF s.fail THEN s ELSE SeekBeg(s, s.pos + off)

\* stream.read(buf, n) into a zeroed buf: [mem, got, s]
StreamRead(c, s, n) ==
    IF s.fail THEN [mem |-> Zeros(n), got |-> 0, s |-> s]
    ELSE LET k == Min(n, Max(0, c.size - s.pos))
         IN [mem |-> SubSeq(c.bytes, s.pos + 1, s.pos + k) \o Zeros(n - k),
             got |-> k,
             s |-> [pos |-> s.pos + k, fail |-> k < n]]

\* ReaderPrivate::read<value_t>, value_t of n bytes: [v, s]
read(c, s, n) ==
    IF s.fail THEN [v |-> 0, s |-> s]
    ELSE LET r == StreamRead(c, s, n)
         IN [v |-> ToNat(byte_swap_if_need(c, FromMem(c.host, r.mem))), s |-> r.s]

\* count values of n bytes read one after the other: [vs, s]
RECURSIVE read_n(_, _, _, _)
read_n(c, s, n, count) ==
    IF count = 0 THEN [vs |-> <<>>, s |-> s]
    ELSE LET r == read(c, s, n)
             rest == read_n(c, r.s, n, count - 1)
         IN [vs |-> <<r.v>> \o rest.vs, s |-> rest.s]

----------------------------------------------------------------------------
(* Enumerations *)

\* DataType
TypeByte == 1
TypeASCII == 2
TypeShort == 3
TypeLong == 4
TypeRational == 5

\* Tags
TagImageWidth == 256
TagImageLength == 257
TagBitsPerSample == 258
TagCompression == 259
TagPhotometricInterpretation == 262
TagFillOrder == 266
TagImageDescription == 270
TagStripOffsets == 273
TagOrientation == 274
TagSamplesPerPixel == 277
TagRowsPerStrip == 278
TagStripByteCounts == 279
TagXResolution == 282
TagYResolution == 283
TagPlanarConfig == 284
TagResolutionUnit == 296
TagTileWidth == 322
TagTileLength == 323
TagTileOffsets == 324
TagTileByteCounts == 325
TagSampleFormat == 339

CompressionNone == 1
OrientationStantard == 1
PhotometricPalette == 3
PlanarConfigChunky == 1
PlanarConfigPlanar == 2

\* the 42 of a TIFF header
TiffMagic == 42

\* Error
NoError == "NoError"
CompressionNotSupport == "CompressionNotSupport"
TiledNotSupport == "TiledNotSupport"
OrientationNotSupport == "OrientationNotSupport"
PhotometricInterpretationNotSupport == "PhotometricInterpretationNotSupport"
MultiSampleSizeNotSupport == "MultiSampleSizeNotSupport"
InvalidImageSize == "InvalidImageSize"
InvalidBitPerSample == "InvalidBitPerSample"
InvalidTiffByteOrder == "InvalidTiffByteOrder"
InvalidTiffMagicNumber == "InvalidTiffMagicNumber"
NoMoreImagesInTiff == "NoMoreImagesInTiff"
StripDataLost == "StripDataLost"
OpenFileFailed == "OpenFileFailed"
ReaderIsNotGoodYet == "ReaderIsNotGoodYet"

----------------------------------------------------------------------------
(* ReaderPrivate::read_ifd *)

\* offset + uint64(count) * width <= file.size, without the product
InFile(c, offset, count, width) ==
    offset <= c.size /\ count <= (c.size - offset) \div width

\* case DataType::Byte, DataType::ASCII: [pvalue, pvalue2, value, pos_changed, offset, s]
read_ifd_bytes(c, s, count) ==
    IF count = 0
    THEN [pvalue |-> <<>>, pvalue2 |-> <<>>, value |-> 0, pos_changed |-> FALSE,
          offset |-> -1, s |-> s]
    ELSE IF count <= 4
    THEN LET r == read_n(c, s, 1, 4)
         IN [pvalue |-> SubSeq(r.vs, 1, count), pvalue2 |-> <<>>, value |-> 0,
             pos_changed |-> FALSE, offset |-> -1, s |-> r.s]
    ELSE LET o == read(c, s, 4)
             r == IF InFile(c, o.v, count, 1)
                  THEN read_n(c, o.s, 1, count)
                  ELSE [vs |-> <<>>, s |-> o.s]
         IN [pvalue |-> r.vs, pvalue2 |-> <<>>, value |-> 0, pos_changed |-> TRUE,
             offset |-> o.v, s |-> r.s]

\* case DataType::Short (n = 2, inline up to 2) and DataType::Long (n = 4,
\* inline up to 1)
read_ifd_ints(c, s, count, n, inline) ==
    IF count <= inline
    THEN LET r == read_n(c, s, n, inline)
         IN [pvalue |-> IF n = 4 THEN r.vs ELSE SubSeq(r.vs, 1, count),
             pvalue2 |-> <<>>, value |-> 0, pos_changed |-> FALSE,
             offset |-> -1, s |-> r.s]
    ELSE LET o == read(c, s, 4)
             r == IF InFile(c, o.v, count, n)
                  THEN read_n(c, SeekBeg(Clear(o.s), o.v), n, count)
                  ELSE [vs |-> <<>>, s |-> o.s]
         IN [pvalue |-> r.vs, pvalue2 |-> <<>>, value |-> 0, pos_changed |-> TRUE,
             offset |-> o.v, s |-> r.s]

\* the odd (numerators) or even (denominators) places of a sequence
RECURSIVE Every2nd(_, _)
Every2nd(vs, first) ==
    IF first > Len(vs) THEN <<>> ELSE <<vs[first]>> \o Every2nd(vs, first + 2)

\* case DataType::Rational
read_ifd_rational(c, s, count) ==
    LET o == read(c, s, 4)
        r == IF InFile(c, o.v, count, 4)
             THEN read_n(c, SeekBeg(Clear(o.s), o.v), 4, 2 * count)
             ELSE [vs |-> <<>>, s |-> o.s]
    IN [pvalue |-> Every2nd(r.vs, 1), pvalue2 |-> Every2nd(r.vs, 2), value |-> 0,
        pos_changed |-> TRUE, offset |-> o.v, s |-> r.s]

\* default:
read_ifd_other(c, s) ==
    LET r == read(c, s, 4)
    IN [pvalue |-> <<>>, pvalue2 |-> <<>>, value |-> r.v, pos_changed |-> FALSE,
        offset |-> -1, s |-> r.s]

\* the tag, type and count of an entry, read one after the other:
\* [tag, type, count, s]
read_ifd_head(c, s) ==
    LET tag == read(c, s, 2)
        type == read(c, tag.s, 2)
        count == read(c, type.s, 4)
    IN [tag |-> tag.v, type |-> type.v, count |-> count.v, s |-> count.s]

\* switch (d.type) on the entry of head h
read_ifd_value(c, h) ==
    CASE h.type \in {TypeByte, TypeASCII} -> read_ifd_bytes(c, h.s, h.count)
      [] h.type = TypeShort -> read_ifd_ints(c, h.s, h.count, 2, 2)
      [] h.type = TypeLong -> read_ifd_ints(c, h.s, h.count, 4, 1)
      [] h.type = TypeRational -> read_ifd_rational(c, h.s, h.count)
      [] OTHER -> read_ifd_other(c, h.s)

\* the end of read_ifd: value and value2 taken from the lists, and the cursor
\* put 4 bytes after pos = tellg() of the slot if pos_changed; s is the
\* stream the entry was read from, h its head, b what the switch read
read_ifd_entry(s, h, b) ==
    LET done == IF b.pos_changed
                THEN SeekCur(SeekBeg(Clear(b.s), Tellg(h.s)), 4)
                ELSE b.s
    IN [d |-> [tag |-> h.tag, type |-> h.type, count |-> h.count,
               value |-> IF b.pvalue # <<>> THEN b.pvalue[1] ELSE b.value,
               value2 |-> IF b.pvalue2 # <<>> THEN b.pvalue2[1] ELSE 0,
               pvalue |-> b.pvalue, pvalue2 |-> b.pvalue2,
               offset |-> b.offset,
               start |-> s.pos, started_good |-> ~s.fail,
               end |-> done.pos, ended_good |-> ~done.fail],
        s |-> done]

\* the entry of head h read from s
read_ifd_typed(c, s, h) == read_ifd_entry(s, h, read_ifd_value(c, h))

\* read_ifd: [d, s]; d carries, beside the IFD's fields, where the entry
\* started and where the cursor was left
read_ifd(c, s) == read_ifd_typed(c, s, read_ifd_head(c, s))

----------------------------------------------------------------------------
(* ReaderFrame and ReaderPrivate::read_next_frame *)

\* ReaderFrame{}
ReaderFrame ==
    [width |-> 0, height |-> 0, compression |-> CompressionNone,
     samples_per_pixel |-> 1, bits_per_sample |-> 0,
     planar_config |-> PlanarConfigChunky, sample_format |-> 1,
     image_length |-> 0, orientation |-> OrientationStantard, fill_order |-> 1,
     resolution_unit |-> 1, resolution |-> [x |-> <<1, 1>>, y |-> <<1, 1>>],
     photometric_interpertation |-> 1, is_tiled |-> FALSE,
     rows_per_strip |-> 0, strip_count |-> 0,
     strip_offsets |-> <<>>, strip_byte_counts |-> <<>>,
     description |-> <<>>]

\* case Tags::BitsPerSample: whether the values after the first all equal it
SameSampleSize(pvalue) == \A j \in 1..Len(pvalue) : pvalue[j] = pvalue[1]

\* the switch (ifd.tag) of read_next_frame: the frame after one entry
apply_tag(fr, d) ==
    LET listed == d.count > 0 /\ d.pvalue # <<>>
    IN CASE d.tag = TagImageWidth -> [fr EXCEPT !.width = d.value]
         [] d.tag = TagImageLength -> [fr EXCEPT !.image_length = d.value]
         [] d.tag = TagBitsPerSample ->
                [fr EXCEPT !.bits_per_sample = IF listed THEN d.pvalue[1] ELSE d.value]
         [] d.tag = TagCompression -> [fr EXCEPT !.compression = d.value % 65536]
         [] d.tag = TagStripOffsets ->
                IF listed
                THEN [fr EXCEPT !.strip_count = d.count,
                                !.strip_offsets = fr.strip_offsets \o d.pvalue]
                ELSE fr
         [] d.tag = TagSamplesPerPixel -> [fr EXCEPT !.samples_per_pixel = d.value % 65536]
         [] d.tag = TagRowsPerStrip -> [fr EXCEPT !.rows_per_strip = d.value]
         [] d.tag = TagSampleFormat -> [fr EXCEPT !.sample_format = d.value % 65536]
         [] d.tag = TagImageDescription ->
                IF listed
                THEN [fr EXCEPT !.description = [j \in 1..Len(d.pvalue) |-> d.pvalue[j] % 256]]
                ELSE fr
         [] d.tag = TagStripByteCounts ->
                IF listed
                THEN [fr EXCEPT !.strip_count = d.count,
                                !.strip_byte_counts = fr.strip_byte_counts \o d.pvalue]
                ELSE fr
         [] d.tag = TagPlanarConfig -> [fr EXCEPT !.planar_config = d.value % 65536]
         [] d.tag = TagOrientation -> [fr EXCEPT !.orientation = d.value % 256]
         [] d.tag = TagPhotometricInterpretation ->
                [fr EXCEPT !.photometric_interpertation = d.value]
         [] d.tag = TagFillOrder -> [fr EXCEPT !.fill_order = d.value % 256]
         [] d.tag \in {TagTileByteCounts, TagTileLength, TagTileOffsets, TagTileWidth} ->
                [fr EXCEPT !.is_tiled = TRUE]
         [] d.tag = TagXResolution -> [fr EXCEPT !.resolution.x = <<d.value, d.value2>>]
         [] d.tag = TagYResolution -> [fr EXCEPT !.resolution.y = <<d.value, d.value2>>]
         [] d.tag = TagResolutionUnit -> [fr EXCEPT !.resolution_unit = d.value % 65536]
         [] OTHER -> fr

\* the err of read_next_frame after one entry
apply_err(err, d) ==
    IF d.tag = TagBitsPerSample /\ d.count > 0 /\ d.pvalue # <<>> /\ ~SameSampleSize(d.pvalue)
    THEN MultiSampleSizeNotSupport
    ELSE err

\* for (i = 0; i < ifd_count; ++i): [fr, err, s, log]; decode_entry is the
\* body of the loop for the entry e that read_ifd handed back
RECURSIVE decode_entries(_, _, _, _, _, _)
decode_entry(c, fr, err, left, log, e) ==
    decode_entries(c, e.s, apply_tag(fr, e.d), apply_err(err, e.d),
                   left - 1, Append(log, e.d))
decode_entries(c, s, fr, err, left, log) ==
    IF left = 0 THEN [fr |-> fr, err |-> err, s |-> s, log |-> log]
    ELSE decode_entry(c, fr, err, left, log, read_ifd(c, s))

\* whether the stored offset names a directory: the guard of read_next_frame
has_directory(c, next) == next # 0 /\ next + 2 < c.size

\* the end of read_next_frame: height, the next offset nx read after the
\* entries es, and good
frame_decoded(es, nx) ==
    [err |-> es.err, next |-> nx.v,
     fr |-> [es.fr EXCEPT !.height = es.fr.image_length],
     good |-> es.err = NoError, s |-> nx.s, log |-> es.log, decoded |-> TRUE]

\* the seek to the end of the ifd_count entries and the read of the next
\* offset
read_next_offset(c, next, ifd_count, es) ==
    frame_decoded(es, read(c, SeekBeg(Clear(es.s), next + 2 + 12 * ifd_count), 4))

\* the directory at next, n its entry count as read
read_directory(c, next, n) ==
    read_next_offset(c, next, n.v,
                     decode_entries(c, n.s, ReaderFrame, NoError, n.v, <<>>))

\* ReaderPrivate::read_next_frame: [err, next, fr, good, s, log, decoded]
read_next_frame(c, next, s) ==
    IF has_directory(c, next)
    THEN read_directory(c, next, read(c, SeekBeg(Clear(s), next), 2))
    ELSE [err |-> NoMoreImagesInTiff, next |-> next, fr |-> ReaderFrame,
          good |-> FALSE, s |-> s, log |-> <<>>, decoded |-> FALSE]

----------------------------------------------------------------------------
(* uint32_t arithmetic, digit by digit so that no intermediate result *)
(* leaves the model checker's integers                                *)

\* byte k (0 the least significant) of a
Digit(a, k) == (a \div (256 ^ k)) % 256

\* column k of the schoolbook product of a and b
MulColumn(a, b, k) ==
    LET RECURSIVE Sum(_)
        Sum(i) == IF i > k THEN 0 ELSE Digit(a, i) * Digit(b, k - i) + Sum(i + 1)
    IN Sum(0)

\* a * b in uint32_t
Mul32(a, b) ==
    LET c0 == MulColumn(a, b, 0)
        c1 == MulColumn(a, b, 1) + (c0 \div 256)
        c2 == MulColumn(a, b, 2) + (c1 \div 256)
        c3 == MulColumn(a, b, 3) + (c2 \div 256)
    IN ((c3 % 256) * 256 + (c2 % 256)) * 65536 + (c1 % 256) * 256 + (c0 % 256)

\* a + b in uint32_t
Add32(a, b) ==
    LET lo == (a % 65536) + (b % 65536)
        hi == (a \div 65536) + (b \div 65536) + (lo \div 65536)
    IN (hi % 65536) * 65536 + (lo % 65536)

----------------------------------------------------------------------------
(* ReaderPrivate::get_sample_data_internal *)

\* do_ranges_overlap that also takes ranges that only touch for overlapping
do_ranges_overlap_touching(r1, r2) ==
    LET total_range == Max(r1[2], r2[2]) - Min(r1[1], r2[1])
        sum_of_ranges == (r1[2] - r1[1]) + (r2[2] - r2[1])
    IN IF sum_of_ranges >= total_range
       THEN <<Max(r1[1], r2[1]), Min(r1[2], r2[2])>>
       ELSE <<>>

\* util::do_ranges_overlap on ranges <<x, y>> with x <= y: <<>> for no value
do_ranges_overlap(r1, r2) ==
    LET total_range == Max(r1[2], r2[2]) - Min(r1[1], r2[1])
        sum_of_ranges == (r1[2] - r1[1]) + (r2[2] - r2[1])
    IN IF sum_of_ranges > total_range
       THEN <<Max(r1[1], r2[1]), Min(r1[2], r2[2])>>
       ELSE <<>>

\* the precondition checks with the photometric check moved before the
\* tiled check
precondition_error_photometric_first(fr) ==
    IF fr.compression # CompressionNone THEN CompressionNotSupport
    ELSE IF fr.photometric_interpertation = PhotometricPalette
         THEN PhotometricInterpretationNotSupport
    ELSE IF fr.is_tiled THEN TiledNotSupport
    ELSE IF fr.orientation # OrientationStantard THEN OrientationNotSupport
    ELSE IF fr.width = 0 \/ fr.height = 0 THEN InvalidImageSize
    ELSE IF fr.bits_per_sample \notin {8, 16, 32, 64} THEN InvalidBitPerSample
    ELSE NoError

\* the precondition checks, in the order of the code: the error of the first
\* one that fails, NoError when none does
precondition_error(fr) ==
    IF fr.compression # CompressionNone THEN CompressionNotSupport
    ELSE IF fr.is_tiled THEN TiledNotSupport
    ELSE IF fr.orientation # OrientationStantard THEN OrientationNotSupport
    ELSE IF fr.photometric_interpertation = PhotometricPalette
         THEN PhotometricInterpretationNotSupport
    ELSE IF fr.width = 0 \/ fr.height = 0 THEN InvalidImageSize
    ELSE IF fr.bits_per_sample \notin {8, 16, 32, 64} THEN InvalidBitPerSample
    ELSE NoError

\* sample_image_size_bytes
sample_image_size_bytes(fr) ==
    Mul32(Mul32(fr.width, fr.height), fr.bits_per_sample) \div 8

\* buf with the bytes bs stored from offset off (0-based) on
Store(buf, off, bs) ==
    [i \in 1..Len(buf) |-> IF i > off /\ i <= off + Len(bs) THEN bs[i - off] ELSE buf[i]]

\* the strip loop of the single-sample / Planar strategy, from strip on;
\* st = [file_idx, out_idx, buf, err, s, threw, overrun, reads]
RECURSIVE planar_strips(_, _, _, _, _, _)
planar_strips(c, fr, lo, hi, strip, st) ==
    IF strip >= fr.strip_count THEN st
    ELSE IF strip >= Len(fr.strip_byte_counts) \/ strip >= Len(fr.strip_offsets)
    THEN [st EXCEPT !.threw = TRUE]    \* vector::at throws std::out_of_range
    ELSE
    LET strip_size_bytes == fr.strip_byte_counts[strip + 1]
        strip_offset_bytes == fr.strip_offsets[strip + 1]
        ov == do_ranges_overlap(<<lo, hi>>,
                                <<st.file_idx, Add32(st.file_idx, strip_size_bytes)>>)
        next_idx == Add32(st.file_idx, strip_size_bytes)
    IN IF ov # <<>>
       THEN LET count_bytes_to_read == ov[2] - ov[1]
                seek_offset == Add32(strip_offset_bytes, ov[1] - st.file_idx)
                r == StreamRead(c, SeekBeg(Clear(st.s), seek_offset), count_bytes_to_read)
                fits == st.out_idx + count_bytes_to_read <= Len(st.buf)
            IN planar_strips(c, fr, lo, hi, strip + 1,
                   [st EXCEPT !.file_idx = next_idx,
                              !.out_idx = Add32(st.out_idx, count_bytes_to_read),
                              !.buf = IF fits THEN Store(st.buf, st.out_idx, SubSeq(r.mem, 1, r.got))
                                      ELSE st.buf,
                              !.overrun = st.overrun \/ ~fits,
                              !.err = IF r.got # count_bytes_to_read THEN StripDataLost ELSE st.err,
                              !.s = r.s,
                              !.reads = Append(st.reads,
                                  [strip |-> strip, from |-> seek_offset,
                                   count |-> count_bytes_to_read, got |-> r.got,
                                   out |-> st.out_idx,
                                   lo |-> ov[1], hi |-> ov[2]])])
       ELSE IF st.file_idx > hi THEN st      \* break: have read all data
       ELSE planar_strips(c, fr, lo, hi, strip + 1, [st EXCEPT !.file_idx = next_idx])

\* the elements of the output buffer byte-swapped in place (bps 16, 32, 64)
swap_buffer(buf, width) ==
    [i \in 1..Len(buf) |->
        LET e == (i - 1) \div width
            k == (i - 1) % width
        IN IF (e + 1) * width <= Len(buf) THEN buf[e * width + (width - k)] ELSE buf[i]]

\* the final loop: element i of the buffer as the host reads it, the bytes
\* most significant first
materialize(c, buf, count, width) ==
    [i \in 1..count |-> FromMem(c.host, SubSeq(buf, (i - 1) * width + 1, i * width))]

\* the cursor left where the call moved it
restore_skipped(s, pos) == s

\* file.stream.clear(); file.stream.seekg(pos): the cursor put back where
\* tellg() found it at the start of the call (count_frames ends the same way)
restore_position(s, pos) == SeekBeg(Clear(s), pos)

\* the strips read into a buffer of size bytes, by the strategy the frame
\* selects: [file_idx, out_idx, buf, err, s, threw, overrun, reads]
read_strips(c, fr, s, sample, err_in, size) ==
    LET width == fr.bits_per_sample \div 8
        st0 == [file_idx |-> 0, out_idx |-> 0, buf |-> Zeros(size), err |-> err_in,
                s |-> s, threw |-> FALSE, overrun |-> FALSE, reads |-> <<>>]
        has_strips == fr.strip_count > 0 /\ fr.strip_byte_counts # <<>>
                      /\ fr.strip_offsets # <<>>
        planar == fr.samples_per_pixel = 1 \/ fr.planar_config = PlanarConfigPlanar
        chunky == fr.samples_per_pixel > 1 /\ fr.planar_config = PlanarConfigChunky
        lo == Mul32(sample, size)
    IN IF has_strips /\ planar
       THEN planar_strips(c, fr, lo, Add32(lo, size), 0, st0)
       ELSE IF ~has_strips /\ chunky /\ fr.strip_count > 0
       THEN [st0 EXCEPT !.overrun = TRUE]   \* operator[] on an empty vector
       ELSE IF ~has_strips /\ chunky /\ c.sys # c.ford /\ width > 1
       THEN [st0 EXCEPT !.buf = swap_buffer(st0.buf, width)]
       ELSE st0

\* the end of get_sample_data_internal: the elems values of width bytes taken
\* from the buffer st.buf, the cursor put back at pos, err set to NoError
sample_values(c, elems, width, pos, st) ==
    IF st.overrun \/ (~st.threw /\ elems > Len(st.buf) \div width)
    THEN [kind |-> "undefined", err |-> st.err, data |-> <<>>, s |-> st.s,
          reads |-> st.reads]
    ELSE IF st.threw
    THEN [kind |-> "threw", err |-> st.err, data |-> <<>>, s |-> st.s,
          reads |-> st.reads]
    ELSE [kind |-> "returned", err |-> NoError,
          data |-> materialize(c, st.buf, elems, width),
          s |-> restore_position(st.s, pos), reads |-> st.reads]

\* get_sample_data_internal: [kind, err, data, s, reads]; kind is "returned",
\* "threw" (std::out_of_range leaves the call) or "undefined" (a vector is
\* indexed or a buffer is accessed out of its bounds); err_in is what the
\* caller's err held
get_sample_data_internal(c, fr, s, sample, err_in) ==
    IF precondition_error(fr) # NoError
    THEN [kind |-> "returned", err |-> precondition_error(fr), data |-> <<>>,
          s |-> s, reads |-> <<>>]
    ELSE sample_values(c, Mul32(fr.width, fr.height), fr.bits_per_sample \div 8,
                       Tellg(s),
                       read_strips(c, fr, s, sample, err_in, sample_image_size_bytes(fr)))

----------------------------------------------------------------------------
(* The session and the public calls of Reader *)

\* the reader's view of the file and of the two byte orders
Ctx == [bytes |-> file, size |-> rf.size, host |-> host,
        sys |-> rf.system_byte_order, ford |-> rf.file_byte_order]

\* what a call hands back; kind: "returned", "threw", "undefined"
Ret(op, kind, err, data, value) ==
    [op |-> op, kind |-> kind, err |-> err, data |-> data, value |-> value,
     reads |-> <<>>]

\* the part of the session count_frames and get_sample_data work on
Session == [stream |-> stream, next_ifd_offset |-> rf.next_ifd_offset,
            frame |-> frame, good |-> good]

\* MaxCount bounds the ghost counters: counts beyond it are not told apart.
\* The frames counter of count_frames wraps as a uint32_t does, here after
\* MaxCount instead of 2^32 - 1
MaxCount == 5
Inc(n) == Min(n + 1, MaxCount)

\* has_next_frame without the test of good
has_next_frame_offset_only ==
    rf.next_ifd_offset > 0 /\ rf.next_ifd_offset < rf.size

\* Reader::has_next_frame
has_next_frame ==
    good /\ rf.next_ifd_offset > 0 /\ rf.next_ifd_offset < rf.size

\* the session after ReaderPrivate::read_next_frame, r its result
Advance(r, op) ==
    /\ rf' = [rf EXCEPT !.next_ifd_offset = r.next]
    /\ frame' = r.fr
    /\ good' = r.good
    /\ stream' = r.s
    /\ ret' = Ret(op, "returned", r.err, <<>>, 0)
    /\ hist' = [hist EXCEPT !.decodes = IF r.decoded THEN Inc(@) ELSE @,
                            !.visited = IF r.err = NoError THEN Inc(@) ELSE @,
                            !.log = r.log,
                            !.before = Session]

\* a marker accepted on its first byte alone
order_marker_first_byte(tiffid) ==
    IF tiffid[1] = 73 THEN LittleEndian
    ELSE IF tiffid[1] = 77 THEN BigEndian
    ELSE UnknownOrder

\* the byte order tiffid declares: "II", "MM" or neither
order_marker(tiffid) ==
    IF tiffid[1] = 73 /\ tiffid[2] = 73 THEN LittleEndian
    ELSE IF tiffid[1] = 77 /\ tiffid[2] = 77 THEN BigEndian
    ELSE UnknownOrder

\* the end of open: the first offset stored and the session as the first
\* read_next_frame, of result r, leaves it
Opened(sys, size, ford, first, r) ==
    /\ rf' = [system_byte_order |-> sys, size |-> size,
              file_byte_order |-> ford,
              first_record_offset |-> first,
              next_ifd_offset |-> r.next]
    /\ frame' = r.fr
    /\ good' = r.good
    /\ stream' = r.s
    /\ ret' = Ret("open", "returned", r.err, <<>>, 0)
    /\ hist' = [hist EXCEPT !.decodes = IF r.decoded THEN Inc(@) ELSE @,
                            !.visited = IF r.err = NoError THEN Inc(@) ELSE @,
                            !.log = r.log,
                            !.open_err = r.err,
                            !.first = r.fr,
                            !.before = Session]

\* Reader::open / ReaderPrivate::open
Open ==
    /\ phase = "constructed"
    /\ phase' = "opened"
    /\ UNCHANGED <<file, exists, host, fixture, cf>>
    /\ LET sys == get_byte_order(LongOne(host))
           size == Len(file)
           c0 == [bytes |-> file, size |-> size, host |-> host, sys |-> sys,
                  ford |-> UnknownOrder]
           id == StreamRead(c0, [pos |-> 0, fail |-> FALSE], 2)
           ford == order_marker(id.mem)
           c == [c0 EXCEPT !.ford = ford]
           magic == read(c, id.s, 2)
           first == read(c, magic.s, 4)
       IN IF ~exists
          THEN /\ rf' = [rf EXCEPT !.system_byte_order = sys]
               /\ stream' = [stream EXCEPT !.fail = TRUE]
               /\ ret' = Ret("open", "returned", OpenFileFailed, <<>>, 0)
               /\ hist' = [hist EXCEPT !.before = Session, !.open_err = OpenFileFailed]
               /\ UNCHANGED <<frame, good>>
          ELSE IF ford = UnknownOrder
          THEN /\ rf' = [rf EXCEPT !.system_byte_order = sys, !.size = size]
               /\ stream' = id.s
               /\ ret' = Ret("open", "returned", InvalidTiffByteOrder, <<>>, 0)
               /\ hist' = [hist EXCEPT !.before = Session, !.open_err = InvalidTiffByteOrder]
               /\ UNCHANGED <<frame, good>>
          ELSE IF magic.v # TiffMagic
          THEN /\ rf' = [rf EXCEPT !.system_byte_order = sys, !.size = size,
                                   !.file_byte_order = ford]
               /\ stream' = magic.s
               /\ ret' = Ret("open", "returned", InvalidTiffMagicNumber, <<>>, 0)
               /\ hist' = [hist EXCEPT !.before = Session, !.open_err = InvalidTiffMagicNumber]
               /\ UNCHANGED <<frame, good>>
          ELSE Opened(sys, size, ford, first.v, read_next_frame(c, first.v, first.s))

\* no call runs while another is running or after a crash
Idle == phase \in {"constructed", "opened"} /\ ~cf.active

\* Reader::has_next_frame, called
HasNextFrame ==
    /\ Idle
    /\ ret' = Ret("has_next_frame", "returned", NoError, <<>>, IF has_next_frame THEN 1 ELSE 0)
    /\ hist' = [hist EXCEPT !.before = Session]
    /\ UNCHANGED <<file, exists, host, fixture, phase, rf, frame, good, stream, cf>>

\* Reader::read_next_frame
ReadNextFrame ==
    /\ Idle
    /\ UNCHANGED <<file, exists, host, fixture, phase, cf>>
    /\ IF ~has_next_frame
       THEN /\ ret' = Ret("read_next_frame", "returned", NoMoreImagesInTiff, <<>>, 0)
            /\ hist' = [hist EXCEPT !.before = Session]
            /\ UNCHANGED <<rf, frame, good, stream>>
       ELSE Advance(read_next_frame(Ctx, rf.next_ifd_offset, stream), "read_next_frame")

\* the session after get_sample_data_internal, r its result: a call that
\* ran into undefined behaviour ends the run
Extract(sample, r) ==
    /\ ret' = [Ret("get_sample_data", r.kind, r.err, r.data, sample)
                   EXCEPT !.reads = r.reads]
    /\ stream' = r.s
    /\ phase' = IF r.kind = "undefined" THEN "crashed" ELSE phase
    /\ hist' = [hist EXCEPT !.before = Session]

\* Reader::get_sample_data
GetSampleData(sample) ==
    /\ Idle
    /\ UNCHANGED <<file, exists, host, fixture, rf, frame, good, cf>>
    /\ IF ~good
       THEN /\ ret' = Ret("get_sample_data", "returned", ReaderIsNotGoodYet, <<>>, sample)
            /\ hist' = [hist EXCEPT !.before = Session]
            /\ UNCHANGED <<phase, stream>>
       ELSE Extract(sample, get_sample_data_internal(Ctx, frame, stream, sample, NoError))

\* Reader::count_frames, up to the loop
CountFramesBegin ==
    /\ Idle
    /\ UNCHANGED <<file, exists, host, fixture, phase, rf, frame, good, stream>>
    /\ hist' = [hist EXCEPT !.before = Session]
    /\ IF good
       THEN /\ cf' = [active |-> TRUE, next_offset |-> rf.first_record_offset,
                      frames |-> 0, pos |-> Tellg(stream)]
            /\ ret' = Ret("count_frames", "running", NoError, <<>>, 0)
       ELSE /\ ret' = Ret("count_frames", "returned", NoError, <<>>, 0)
            /\ UNCHANGED cf

\* one turn of while (next_offset > 0)
CountFramesStep ==
    /\ cf.active /\ cf.next_offset > 0
    /\ \E n \in {read(Ctx, SeekBeg(Clear(stream), cf.next_offset), 2)} :
       \E nx \in {read(Ctx, SeekCur(n.s, (n.v * 12) % 65536), 4)} :
          /\ cf' = [cf EXCEPT !.next_offset = nx.v, !.frames = (@ + 1) % (MaxCount + 1)]
          /\ stream' = nx.s
    /\ UNCHANGED <<file, exists, host, fixture, phase, rf, frame, good, ret, hist>>

\* after the loop: the cursor is put back and frames handed back
CountFramesEnd ==
    /\ cf.active /\ cf.next_offset = 0
    /\ stream' = restore_position(stream, cf.pos)
    /\ ret' = Ret("count_frames", "returned", NoError, <<>>, cf.frames)
    /\ cf' = [cf EXCEPT !.active = FALSE]
    /\ UNCHANGED <<file, exists, host, fixture, phase, rf, frame, good, hist>>

----------------------------------------------------------------------------
(* The files the reader is run on, built to the layout the code reads:   *)
(* header, directories of 12-byte entries, next-directory offset, data   *)

Orders == {LittleEndian, BigEndian}

\* v in n bytes of order o
Enc(o, v, n) ==
    LET be == [i \in 1..n |-> Digit(v, n - i)]
    IN IF o = BigEndian THEN be ELSE Reverse(be)

RECURSIVE Flatten(_)
Flatten(ss) == IF ss = <<>> THEN <<>> ELSE Head(ss) \o Flatten(Tail(ss))

\* bs cut or zero-padded to n bytes
Pad(bs, n) == SubSeq(bs \o Zeros(n), 1, n)

Marker(o) == IF o = LittleEndian THEN <<73, 73>> ELSE <<77, 77>>

Header(o, first) == Marker(o) \o Enc(o, TiffMagic, 2) \o Enc(o, first, 4)

Entry(o, tag, type, count, slot) ==
    Enc(o, tag, 2) \o Enc(o, type, 2) \o Enc(o, count, 4) \o Pad(slot, 4)

\* an entry of count Shorts (at most 2), held in the slot
Shorts(o, tag, vs) ==
    Entry(o, tag, TypeShort, Len(vs), Flatten([i \in 1..Len(vs) |-> Enc(o, vs[i], 2)]))

Dir(o, entries, next) ==
    Enc(o, Len(entries), 2) \o Flatten(entries) \o Enc(o, next, 4)

\* -- chains of directories ------------------------------------------------
\* MaxFrames: the longest chain
MaxFrames == 3

\* directory i of a chain: width i, length 1, two BitsPerSample values
\* (different ones in directory mix)
ChainDirLen == 2 + 12 * 3 + 4
ChainDir(o, i, mix, next) ==
    Dir(o, << Shorts(o, TagImageWidth, <<i>>),
              Shorts(o, TagImageLength, <<1>>),
              Shorts(o, TagBitsPerSample, IF i = mix THEN <<8, 16>> ELSE <<8, 8>>) >>, next)

ChainTails == {"end", "beyond", "edge", "cycle", "cut", "half"}

\* n directories from offset 8 on, one after the other; the last one's
\* next offset is 0 ("end"), past the end of the file ("beyond"), on its last
\* byte ("edge"), the first directory ("cycle"), or missing ("cut": the file
\* ends after the last entry, "half": two bytes later)
ChainFile(o, n, mix, tail) ==
    LET size == 8 + n * ChainDirLen
        last == CASE tail = "beyond" -> size + 4
                  [] tail = "edge" -> size - 1
                  [] tail = "cycle" -> 8
                  [] OTHER -> 0
        dirs == [i \in 1..n |->
                    ChainDir(o, i, mix, IF i < n THEN 8 + i * ChainDirLen ELSE last)]
        all == Header(o, 8) \o Flatten(dirs)
    IN CASE tail = "cut" -> SubSeq(all, 1, size - 4)
         [] tail = "half" -> SubSeq(all, 1, size - 2)
         [] OTHER -> all

\* how a file was made: the family and, for a file of pixels, its parameters
Fx(family, o, bps, spp, ns, cut, layout) ==
    [family |-> family, o |-> o, bps |-> bps, spp |-> spp, ns |-> ns, cut |-> cut,
     layout |-> layout]
Input(fx, bytes) == [fx |-> fx, bytes |-> bytes]

ChainFiles ==
    {Input(Fx("chain", o, 0, 0, 0, 0, tail), ChainFile(o, n, 0, tail)) :
        o \in Orders, n \in 1..MaxFrames, tail \in ChainTails}
    \cup {Input(Fx("chain", o, 0, 0, 0, 0, "end"), ChainFile(o, n, mix, "end")) :
        o \in Orders, n \in 1..MaxFrames, mix \in 1..MaxFrames}

\* -- headers ---------------------------------------------------------------
\* a one-directory file with the order marker and the magic number replaced
HeaderFile(marker, o, magic) ==
    marker \o Enc(o, magic, 2) \o Enc(o, 8, 4) \o ChainDir(o, 1, 0, 0)

HeaderFiles ==
    {Input(Fx("header", o, 0, 0, 0, 0, ""), HeaderFile(m, o, magic)) :
        m \in {<<73, 73>>, <<77, 77>>, <<73, 77>>, <<0, 0>>},
        o \in Orders, magic \in {TiffMagic, 43, 10752}}
    \cup {Input(Fx("header", LittleEndian, 0, 0, 0, 0, ""), bs) :
        bs \in {<<>>, <<73>>, <<77, 77>>, <<73, 73, 42>>}}

\* -- pixels ----------------------------------------------------------------
\* ImgWidth: the pixels of a row; the images have one row
ImgWidth == 2

\* the bytes of sample k of pixel p (both from 0) as they lie in the file:
\* every byte of an image is different
SampleBytes(p, k, spp, B) == [j \in 1..B |-> (p * spp + k) * B + j]

\* the image with each sample in a plane of its own, and with the samples of
\* a pixel next to each other
PlanarData(spp, B) ==
    Flatten([k \in 1..spp |->
        Flatten([p \in 1..ImgWidth |-> SampleBytes(p - 1, k - 1, spp, B)])])
ChunkyData(spp, B) ==
    Flatten([p \in 1..ImgWidth |->
        Flatten([k \in 1..spp |-> SampleBytes(p - 1, k - 1, spp, B)])])

PixDirLen == 2 + 12 * 7 + 4
PixDir(o, bps, spp, pc, offs, cnts, next) ==
    Dir(o, << Shorts(o, TagImageWidth, <<ImgWidth>>),
              Shorts(o, TagImageLength, <<1>>),
              Shorts(o, TagBitsPerSample, [k \in 1..spp |-> bps]),
              Shorts(o, TagSamplesPerPixel, <<spp>>),
              Shorts(o, TagPlanarConfig, <<pc>>),
              Shorts(o, TagStripOffsets, offs),
              Shorts(o, TagStripByteCounts, cnts) >>, next)

\* two frames of the same pixels: the first Planar, the second Chunky, each
\* in ns strips; the directories before the data ("dirs") or after it
\* ("data"); the last cut bytes of the file are missing
PairFile(o, bps, spp, ns, cut, layout) ==
    LET B == bps \div 8
        len == ImgWidth * spp * B
        s1 == IF ns = 1 THEN len ELSE len \div 2
        cnts == IF ns = 1 THEN <<len>> ELSE <<s1, len - s1>>
        offs(base) == IF ns = 1 THEN <<base>> ELSE <<base, base + s1>>
        dir1 == IF layout = "dirs" THEN 8 ELSE 8 + 2 * len
        dir2 == dir1 + PixDirLen
        dataP == IF layout = "dirs" THEN dir2 + PixDirLen + len ELSE 8
        dataC == IF layout = "dirs" THEN dir2 + PixDirLen ELSE 8 + len
        d1 == PixDir(o, bps, spp, PlanarConfigPlanar, offs(dataP), cnts, dir2)
        d2 == PixDir(o, bps, spp, PlanarConfigChunky, offs(dataC), cnts, 0)
        all == IF layout = "dirs"
               THEN Header(o, dir1) \o d1 \o d2 \o ChunkyData(spp, B) \o PlanarData(spp, B)
               ELSE Header(o, dir1) \o PlanarData(spp, B) \o ChunkyData(spp, B) \o d1 \o d2
    IN SubSeq(all, 1, Len(all) - cut)

\* the variants: whole, the last strip of the Planar frame a byte short, the
\* last directory a byte short
PixelVariants == {<<0, "dirs">>, <<1, "dirs">>, <<1, "data">>}

PixelFiles ==
    {Input(Fx("pixels", o, bps, spp, ns, v[1], v[2]), PairFile(o, bps, spp, ns, v[1], v[2])) :
        o \in Orders, bps \in {8, 16, 32, 64}, spp \in {1, 2}, ns \in {1, 2},
        v \in PixelVariants}

\* -- single entries --------------------------------------------------------
\* MaxEntryCount: the largest count of the entry under test
MaxEntryCount == 5

\* the bytes after the directory that offsets point to
EntryData == <<101, 102, 103, 104, 105, 106, 107, 108, 109, 110, 111, 112>>

\* one directory of two entries, the one under test and ImageWidth = 7, then
\* EntryData; the slot of the entry under test holds four bytes of data
\* ("inline"), the offset of EntryData ("valid") or an offset four bytes
\* before the end of the file ("late")
EntryFile(o, tag, type, count, slot) ==
    LET data == 8 + 2 + 12 * 2 + 4
        s == CASE slot = "valid" -> Enc(o, data, 4)
               [] slot = "late" -> Enc(o, data + Len(EntryData) - 4, 4)
               [] OTHER -> <<1, 2, 3, 4>>
    IN Header(o, 8)
       \o Dir(o, <<Entry(o, tag, type, count, s), Shorts(o, TagImageWidth, <<7>>)>>, 0)
       \o EntryData

EntryFiles ==
    {Input(Fx("entries", o, 0, 0, 0, 0, slot),
           EntryFile(o, TagImageDescription, type, count, slot)) :
        o \in Orders, type \in {TypeByte, TypeASCII, TypeShort, TypeLong, TypeRational, 7},
        count \in 0..MaxEntryCount, slot \in {"inline", "valid", "late"}}

\* -- frames that extraction rejects ----------------------------------------
\* one directory of a 1-row image in one strip of two bytes, with the given
\* Compression, tiling, Orientation, PhotometricInterpretation, ImageWidth
\* and BitsPerSample
RejectFile(o, comp, tiled, orient, photo, w, bps) ==
    LET data == 8 + 2 + 12 * 9 + 4
    IN Header(o, 8)
       \o Dir(o, << Shorts(o, TagImageWidth, <<w>>),
                    Shorts(o, TagImageLength, <<1>>),
                    Shorts(o, TagBitsPerSample, <<bps>>),
                    Shorts(o, TagCompression, <<comp>>),
                    Shorts(o, TagPhotometricInterpretation, <<photo>>),
                    Shorts(o, TagStripOffsets, <<data>>),
                    Shorts(o, TagOrientation, <<orient>>),
                    Shorts(o, TagStripByteCounts, <<2>>),
                    Shorts(o, IF tiled THEN TagTileWidth ELSE 305, <<16>>) >>, 0)
       \o <<1, 2>>

RejectFiles ==
    {Input(Fx("reject", LittleEndian, bps, 1, 1, 0, ""),
           RejectFile(LittleEndian, comp, tiled, orient, photo, w, bps)) :
        comp \in {CompressionNone, 5}, tiled \in BOOLEAN,
        orient \in {OrientationStantard, 3}, photo \in {1, PhotometricPalette},
        w \in {0, 2}, bps \in {8, 12}}

\* -- entries whose data lies at an offset -----------------------------------
\* the tags of the entry under test: one of each kind of case of the switch
SoftTags ==
    {TagImageWidth, TagBitsPerSample, TagCompression, TagStripOffsets,
     TagImageDescription, TagXResolution, TagTileWidth}

\* EntryFile with an entry of 3 values, too many for the slot: the slot
\* holds the offset of EntryData ("valid"), an offset 4 bytes before the end
\* of the file ("late") or the bytes 1 2 3 4 ("inline", an offset far beyond
\* the file)
SoftFiles ==
    {Input(Fx("soft", o, 0, 0, 0, 0, slot), EntryFile(o, tag, type, 3, slot)) :
        o \in Orders, tag \in SoftTags, type \in {TypeShort, TypeLong, TypeRational},
        slot \in {"inline", "valid", "late"}}

\* -- strip tables -----------------------------------------------------------
\* MaxStrips: the longest strip table
MaxStrips == 3

\* vs[1] + ... + vs[n]
RECURSIVE SumTo(_, _)
SumTo(vs, n) == IF n = 0 THEN 0 ELSE vs[n] + SumTo(vs, n - 1)

\* the tables of byte counts, empty strips included, that add up to len
StripTables(len) ==
    {cs \in UNION {[1..n -> 0..len] : n \in 1..MaxStrips} : SumTo(cs, Len(cs)) = len}

\* an entry of Shorts: in the slot, or from three on at the offset at
ShortList(o, tag, vs, at) ==
    IF Len(vs) <= 2 THEN Shorts(o, tag, vs)
    ELSE Entry(o, tag, TypeShort, Len(vs), Enc(o, at, 4))
ShortListData(o, vs) ==
    IF Len(vs) <= 2 THEN <<>> ELSE Flatten([i \in 1..Len(vs) |-> Enc(o, vs[i], 2)])

\* a Planar image of one row of ImgWidth pixels, 8 bits per sample, in strips
\* of cnts bytes that lie in the file in reverse order, after the directory
\* and the tables. shape: "match" (both tables whole), "fewer" (the last
\* offset is missing), "absent" (no StripOffsets), "repeated" (StripOffsets
\* twice), "lost" (StripOffsets at an offset beyond the file)
StripDirLen == 2 + 12 * 8 + 4
StripFile(o, spp, cnts, shape) ==
    LET img == PlanarData(spp, 1)
        len == Len(img)
        n == Len(cnts)
        no == IF shape = "fewer" THEN n - 1 ELSE n
        tblO == 8 + StripDirLen
        tblC == tblO + (IF no > 2 THEN 2 * no ELSE 0)
        data == tblC + (IF n > 2 THEN 2 * n ELSE 0)
        offs == [i \in 1..no |-> data + (len - SumTo(cnts, i))]
        other == Shorts(o, 305, <<0>>)
        so == CASE shape = "absent" -> other
                [] shape = "lost" ->
                       Entry(o, TagStripOffsets, TypeLong, Max(n, 2), Enc(o, 30000, 4))
                [] OTHER -> ShortList(o, TagStripOffsets, offs, tblO)
    IN Header(o, 8)
       \o Dir(o, << Shorts(o, TagImageWidth, <<ImgWidth>>),
                    Shorts(o, TagImageLength, <<1>>),
                    Shorts(o, TagBitsPerSample, <<8>>),
                    Shorts(o, TagSamplesPerPixel, <<spp>>),
                    Shorts(o, TagPlanarConfig, <<PlanarConfigPlanar>>),
                    so,
                    ShortList(o, TagStripByteCounts, cnts, tblC),
                    IF shape = "repeated" THEN so ELSE other >>, 0)
       \o ShortListData(o, offs) \o ShortListData(o, cnts)
       \o Flatten([i \in 1..n |->
               SubSeq(img, SumTo(cnts, n - i) + 1, SumTo(cnts, n - i + 1))])

StripShapes == {"fewer", "absent", "repeated", "lost"}

StripFiles ==
    UNION {{Input(Fx("strips", o, 8, spp, Len(cnts), 0, "match"),
                  StripFile(o, spp, cnts, "match")) :
                o \in Orders, cnts \in StripTables(ImgWidth * spp)} : spp \in {1, 2}}
    \cup {Input(Fx("strips", o, 8, 1, Len(cnts), 0, shape), StripFile(o, 1, cnts, shape)) :
        o \in Orders, cnts \in StripTables(ImgWidth), shape \in StripShapes}

\* -- sizes whose product leaves 32 bits -------------------------------------
\* an image of w x h pixels of one sample, declared as Longs, with one strip
\* of two bytes
SizeFile(o, w, h, bps) ==
    LET data == 8 + 2 + 12 * 5 + 4
    IN Header(o, 8)
       \o Dir(o, << Entry(o, TagImageWidth, TypeLong, 1, Enc(o, w, 4)),
                    Entry(o, TagImageLength, TypeLong, 1, Enc(o, h, 4)),
                    Shorts(o, TagBitsPerSample, <<bps>>),
                    Shorts(o, TagStripOffsets, <<data>>),
                    Shorts(o, TagStripByteCounts, <<2>>) >>, 0)
       \o <<1, 2>>

\* 2 x 1; 2^29 x 1 and 65536 x 65536, whose byte size is 0 modulo 2^32;
\* (2^29 + 1) x 1, whose byte size is 8 or 16 bits modulo 2^32
SizeFiles ==
    {Input(Fx("sizes", o, bps, 1, 1, 0, ""), SizeFile(o, wh[1], wh[2], bps)) :
        o \in Orders, bps \in {8, 16},
        wh \in {<<2, 1>>, <<2 ^ 29, 1>>, <<2 ^ 29 + 1, 1>>, <<65536, 65536>>}}

Files ==
    ChainFiles \cup HeaderFiles \cup PixelFiles \cup EntryFiles \cup RejectFiles
        \cup SoftFiles \cup StripFiles \cup SizeFiles

----------------------------------------------------------------------------
(* The state machine *)

\* MaxSample: the largest sample index asked for
MaxSample == 1

InitOn(inputs) ==
    /\ \E in \in inputs : file = in.bytes /\ fixture = in.fx
    /\ exists \in BOOLEAN
    /\ (~exists => file = <<>>)
    /\ host \in Orders
    /\ phase = "constructed"
    /\ rf = [first_record_offset |-> 0, next_ifd_offset |-> 0,
             system_byte_order |-> UnknownOrder, file_byte_order |-> UnknownOrder,
             size |-> 0]
    /\ frame = ReaderFrame
    /\ good = FALSE
    /\ stream = [pos |-> 0, fail |-> FALSE]
    /\ cf = [active |-> FALSE, next_offset |-> 0, frames |-> 0, pos |-> 0]
    /\ ret = Ret("construct", "returned", NoError, <<>>, 0)
    /\ hist = [decodes |-> 0, visited |-> 0, log |-> <<>>, open_err |-> "",
               first |-> ReaderFrame,
               before |-> [stream |-> [pos |-> 0, fail |-> FALSE],
                           next_ifd_offset |-> 0, frame |-> ReaderFrame, good |-> FALSE]]

Next ==
    \/ Open
    \/ HasNextFrame
    \/ ReadNextFrame
    \/ \E sample \in 0..MaxSample : GetSampleData(sample)
    \/ CountFramesBegin
    \/ CountFramesStep
    \/ CountFramesEnd

Init == InitOn(Files)
Spec == Init /\ [][Next]_vars

\* the reader on the files of one family
SpecNav == InitOn(ChainFiles \cup HeaderFiles) /\ [][Next]_vars
SpecPixels == InitOn(PixelFiles) /\ [][Next]_vars
SpecEntries == InitOn(EntryFiles) /\ [][Next]_vars
SpecReject == InitOn(RejectFiles) /\ [][Next]_vars
SpecSoft == InitOn(SoftFiles) /\ [][Next]_vars
SpecStrips == InitOn(StripFiles) /\ [][Next]_vars
SpecSizes == InitOn(SizeFiles) /\ [][Next]_vars

\* a call of count_frames that has begun keeps running: the loop takes its
\* next turn while next_offset > 0 and the function returns once it is 0
SpecCount ==
    /\ InitOn(ChainFiles) /\ [][Next]_vars
    /\ WF_vars(CountFramesStep) /\ WF_vars(CountFramesEnd)

----------------------------------------------------------------------------
(* Properties *)

\* the last call was get_sample_data on a good reader
Extracted == ret.op = "get_sample_data" /\ hist.before.good

\* the values of sample k of the pixels of a file of pixels, each read from
\* its bytes in the byte order the file declares, most significant first
StoredSamples(fx, k) ==
    [p \in 1..ImgWidth |->
        LET bs == SampleBytes(p - 1, k, fx.spp, fx.bps \div 8)
        IN IF fx.o = BigEndian THEN bs ELSE Reverse(bs)]

\* C1: for a whole file of pixels (uncompressed, in strips, bits-per-sample
\* 8, 16, 32 or 64, of the host's byte order or the other one) and every
\* sample index k < samples_per_pixel, get_sample_data(k) returns the values
\* of sample k as stored in the file, read in the file's byte order.
C1_SamplesAsStored ==
    (Extracted /\ fixture.family = "pixels" /\ fixture.cut = 0 /\ ret.value < fixture.spp)
        => (ret.kind = "returned" /\ ret.data = StoredSamples(fixture, ret.value))

\* C2: the second frame of a file of pixels holds, Chunky, the pixels the
\* first frame holds Planar; with samples_per_pixel > 1 and strips in both,
\* get_sample_data(k) on the second returns what it returns on the first.
C2_PlanarEqualsChunky ==
    (/\ Extracted /\ fixture.family = "pixels" /\ fixture.cut = 0
     /\ fixture.spp > 1 /\ ret.value < fixture.spp
     /\ frame.planar_config = PlanarConfigChunky
     /\ hist.first.planar_config = PlanarConfigPlanar
     /\ frame.strip_offsets # <<>> /\ hist.first.strip_offsets # <<>>)
        => ret.data = get_sample_data_internal(Ctx, hist.first, stream, ret.value, NoError).data

\* a strip read of the last extraction came back short
ShortRead == \E i \in 1..Len(ret.reads) : ret.reads[i].got < ret.reads[i].count

\* C6: when a strip read returns fewer bytes than asked for, the call still
\* returns width*height values and hands back StripDataLost.
C6_ShortReadReported ==
    (Extracted /\ ret.kind = "returned" /\ ShortRead)
        => (Len(ret.data) = frame.width * frame.height /\ ret.err = StripDataLost)

\* C3: once the reader has been advanced to the end of the chain of a file
\* that open accepted, count_frames() equals the number of frames visited:
\* the one open decoded plus one for each read_next_frame() that returned
\* NoError.
C3_CountEqualsVisited ==
    (/\ ret.op = "count_frames" /\ ret.kind = "returned"
     /\ hist.open_err = NoError /\ ~has_next_frame)
        => ret.value = hist.visited

\* what the session shows of itself: the position the stream reports, its
\* failure flag, the stored next-IFD offset, the current Frame, the good flag
Shown(sess) ==
    [pos |-> Tellg(sess.stream), fail |-> sess.stream.fail,
     next_ifd_offset |-> sess.next_ifd_offset, frame |-> sess.frame, good |-> sess.good]

\* C4: when count_frames or get_sample_data has returned, with whatever
\* result or error, the stream position, the stored next-IFD offset, the
\* current Frame and the good flag are what they were before the call.
C4_CallsLeaveSession ==
    (ret.op \in {"count_frames", "get_sample_data"} /\ ret.kind = "returned")
        => Shown(Session) = Shown(hist.before)

\* C4, a case: an extraction that read a strip and returned
C4_Witness ==
    /\ ret.op = "get_sample_data" /\ ret.kind = "returned" /\ ret.err = NoError
    /\ ret.reads # <<>> /\ stream.pos # ret.reads[Len(ret.reads)].from

\* the file does not start with "II" or "MM"
BadMarker ==
    Len(file) < 2 \/ <<file[1], file[2]>> \notin {<<73, 73>>, <<77, 77>>}

\* the 16-bit value after the marker, read in the byte order the marker declares
DeclaredMagic ==
    IF file[1] = 73 THEN file[3] + 256 * file[4] ELSE 256 * file[3] + file[4]

\* C7: open on a file that does not start with "II" or "MM" returns
\* InvalidTiffByteOrder; open on a file with a marker whose following 16-bit
\* value, in the declared byte order, is not 42 returns
\* InvalidTiffMagicNumber; either way no directory is decoded then or later
\* and good() stays false.
C7_HeaderRejected ==
    (phase # "constructed" /\ exists) =>
        /\ BadMarker =>
              (hist.open_err = InvalidTiffByteOrder /\ ~good /\ hist.decodes = 0)
        /\ (~BadMarker /\ Len(file) >= 4 /\ DeclaredMagic # TiffMagic) =>
              (hist.open_err = InvalidTiffMagicNumber /\ ~good /\ hist.decodes = 0)

\* C7, a case: a file of the byte order the host does not have, rejected
\* for its magic number, and calls made after that
C7_Witness ==
    /\ hist.open_err = InvalidTiffMagicNumber
    /\ rf.system_byte_order # rf.file_byte_order
    /\ ret.op = "read_next_frame"

\* C8 as stated: after open, has_next_frame() is true exactly when the
\* stored next-IFD offset is nonzero and less than the file size.
C8_HasNextIffOffsetInFile ==
    (phase # "constructed" /\ hist.open_err = NoError) =>
        (has_next_frame <=> (rf.next_ifd_offset # 0 /\ rf.next_ifd_offset < rf.size))

\* C8 amended: has_next_frame() returns true exactly when the reader is good
\* and the stored next-IFD offset is nonzero and less than the file size.
C8_HasNextIffGoodAndOffsetInFile ==
    ret.op = "has_next_frame" =>
        (ret.value = 1 <=>
            (good /\ rf.next_ifd_offset # 0 /\ rf.next_ifd_offset < rf.size))

\* C8, a case: the offset names a place in the file, the reader is not good,
\* and has_next_frame() was called
C8_Witness ==
    /\ ret.op = "has_next_frame" /\ phase = "opened" /\ ~good
    /\ rf.next_ifd_offset # 0 /\ rf.next_ifd_offset < rf.size

\* what the frame violates, in the order of C5, and the rejections
Violated(fr) ==
    << fr.compression # CompressionNone,
       fr.is_tiled,
       fr.orientation # OrientationStantard,
       fr.photometric_interpertation = PhotometricPalette,
       fr.width = 0 \/ fr.height = 0,
       fr.bits_per_sample \notin {8, 16, 32, 64} >>
Rejections ==
    << CompressionNotSupport, TiledNotSupport, OrientationNotSupport,
       PhotometricInterpretationNotSupport, InvalidImageSize, InvalidBitPerSample >>

\* C5: get_sample_data on a good reader reports the first violated
\* precondition in the order compression, tiled, orientation, photometric
\* interpretation, image size, bits-per-sample, and returns an empty sequence.
C5_FirstViolatedReported ==
    Extracted =>
        \A i \in 1..6 :
            (Violated(frame)[i] /\ \A j \in 1..(i - 1) : ~Violated(frame)[j])
                => (ret.kind = "returned" /\ ret.err = Rejections[i] /\ ret.data = <<>>)

\* C5, a case: a tiled Palette frame of width 0 and 12 bits per sample,
\* rejected as tiled
C5_Witness ==
    /\ Extracted /\ ret.err = TiledNotSupport
    /\ frame.photometric_interpertation = PhotometricPalette
    /\ frame.width = 0 /\ frame.bits_per_sample = 12

\* C9: after every 12-byte directory entry that lies wholly inside the file,
\* of any type and count, read_ifd leaves the cursor 12 bytes past the place
\* where the entry started.
C9_CursorPastEntry ==
    \A i \in 1..Len(hist.log) :
        LET e == hist.log[i]
        IN (e.started_good /\ e.start + 12 <= rf.size)
               => (e.ended_good /\ e.end = e.start + 12)

\* C10: a Byte or ASCII entry with count > 4 whose slot holds an offset with
\* offset + count <= file size decodes to the count bytes at that offset, and
\* so does the description of a frame whose ImageDescription is such an entry.
C10_BytesReadAtOffset ==
    \A i \in 1..Len(hist.log) :
        LET e == hist.log[i]
            there == SubSeq(file, e.offset + 1, e.offset + e.count)
        IN (/\ e.started_good /\ e.start + 12 <= rf.size
            /\ e.type \in {TypeByte, TypeASCII} /\ e.count > 4
            /\ e.offset >= 0 /\ e.offset + e.count <= rf.size)
               => /\ e.pvalue = there
                  /\ e.tag = TagImageDescription => frame.description = there

\* the bytes of one value as the bounds check of read_ifd counts them
CheckedWidth(type) == IF type = TypeShort THEN 2 ELSE 4

\* the file with the tag of the entry that starts at byte start replaced by
\* tag 0, which the switch of read_next_frame ignores
WithoutTag(bytes, start) ==
    [i \in 1..Len(bytes) |-> IF i \in {start + 1, start + 2} THEN 0 ELSE bytes[i]]

\* the decode of the first directory had the entry at start been of no
\* recognized tag
DecodedWithout(start) ==
    read_next_frame([Ctx EXCEPT !.bytes = WithoutTag(file, start)],
                    rf.first_record_offset, [pos |-> 0, fail |-> FALSE])

\* the first entry of the directory open decoded is a Short, Long or Rational
\* entry whose data lies at an offset that fails the bounds check
FirstEntryOutOfFile ==
    /\ ret.op = "open" /\ hist.open_err \notin {OpenFileFailed, InvalidTiffByteOrder,
                                                InvalidTiffMagicNumber}
    /\ Len(hist.log) >= 1
    /\ hist.log[1].type \in {TypeShort, TypeLong, TypeRational}
    /\ hist.log[1].offset >= 0
    /\ ~InFile(Ctx, hist.log[1].offset, hist.log[1].count,
               CheckedWidth(hist.log[1].type))

\* C11: when an entry of a recognized tag whose data lies at an offset fails
\* its bounds check, the frame ends as it would without that tag, the other
\* entries are decoded all the same, and the decode reports the same error.
C11_FailedEntryLeavesDefault ==
    (FirstEntryOutOfFile /\ hist.log[1].tag \in SoftTags) =>
        /\ frame = DecodedWithout(hist.log[1].start).fr
        /\ Len(hist.log) = Len(DecodedWithout(hist.log[1].start).log)
        /\ ret.err = DecodedWithout(hist.log[1].start).err

\* a directory was decoded and an entry of it had a strip tag
StripTagDecoded ==
    /\ ret.op \in {"open", "read_next_frame"}
    /\ \E i \in 1..Len(hist.log) :
           hist.log[i].tag \in {TagStripOffsets, TagStripByteCounts}

\* C12: after a frame decode in which a strip tag was present, strip_offsets
\* and strip_byte_counts both have strip_count elements.
C12_StripTablesHaveStripCount ==
    StripTagDecoded =>
        /\ Len(frame.strip_offsets) = frame.strip_count
        /\ Len(frame.strip_byte_counts) = frame.strip_count

\* get_sample_data returned from the single-sample / Planar strategy on a
\* frame whose tables have strip_count entries and whose byte counts cover
\* the window of the sample
WindowCovered ==
    /\ Extracted /\ ret.kind = "returned" /\ precondition_error(frame) = NoError
    /\ frame.strip_count > 0
    /\ Len(frame.strip_offsets) = frame.strip_count
    /\ Len(frame.strip_byte_counts) = frame.strip_count
    /\ frame.samples_per_pixel = 1 \/ frame.planar_config = PlanarConfigPlanar
    /\ SumTo(frame.strip_byte_counts, frame.strip_count)
           >= (ret.value + 1) * sample_image_size_bytes(frame)

\* C13: in the single-sample / Planar strategy, when the strips cover the
\* window of the sample, exactly the strips that intersect the window are
\* read, each once: the bytes of the intersection, from strip_offset +
\* (intersection start - strip start), stored at intersection start - window
\* start; the reads cover every byte of the window exactly once.
C13_StripReadsPartitionWindow ==
    WindowCovered =>
        LET fb == sample_image_size_bytes(frame)
            lo == ret.value * fb
            hi == lo + fb
            a(i) == SumTo(frame.strip_byte_counts, i - 1)
            x(i) == Max(lo, a(i))
            y(i) == Min(hi, SumTo(frame.strip_byte_counts, i))
            hits == {i \in 1..frame.strip_count : x(i) < y(i)}
            R == ret.reads
        IN /\ Len(R) = Cardinality(hits)
           /\ \A j \in 1..Len(R) :
                  /\ R[j].strip + 1 \in hits
                  /\ R[j].from = frame.strip_offsets[R[j].strip + 1]
                                     + (x(R[j].strip + 1) - a(R[j].strip + 1))
                  /\ R[j].count = y(R[j].strip + 1) - x(R[j].strip + 1)
                  /\ R[j].out = x(R[j].strip + 1) - lo
                  /\ \A k \in 1..Len(R) : R[k].strip = R[j].strip => k = j
           /\ \A q \in 0..(fb - 1) :
                  Cardinality({j \in 1..Len(R) :
                      R[j].out <= q /\ q < R[j].out + R[j].count}) = 1

\* C13, a case: the second sample's window is read from two strips, the
\* first of them from its second byte on
C13_Witness ==
    /\ WindowCovered /\ ret.value = 1 /\ Len(ret.reads) = 2
    /\ ret.reads[1].from = frame.strip_offsets[ret.reads[1].strip + 1] + 1
    /\ ret.reads[2].out = 1

\* C14: on a frame that passes the preconditions, whatever the sizes, with
\* the products and sums taken modulo 2^32, get_sample_data accesses no byte
\* outside the output buffer, neither when it copies the strips nor when it
\* takes the width*height elements from it. (The Chunky branch entered with
\* an empty strip table indexes the table, not the buffer.)
C14_BufferNeverOverrun ==
    (/\ Extracted /\ precondition_error(frame) = NoError
     /\ ~(/\ frame.samples_per_pixel > 1 /\ frame.planar_config = PlanarConfigChunky
          /\ frame.strip_count > 0
          /\ (frame.strip_offsets = <<>> \/ frame.strip_byte_counts = <<>>)))
        => ret.kind # "undefined"

\* C15: on every file that open accepts, a call of count_frames that has
\* begun returns, also when a next-IFD offset points back to a directory
\* already counted or beyond the end of the file.
C15_CountFramesReturns == cf.active ~> ~cf.active

\* C16: a read_next_frame that returns NoMoreImagesInTiff was not called in
\* a session on which has_next_frame returns true (good, and the next-IFD
\* offset above 0 and below the file size), and it leaves the current frame,
\* the good flag and the stored next-IFD offset as they were before the call.
C16_NoMoreImagesOnlyAtEnd ==
    (ret.op = "read_next_frame" /\ ret.err = NoMoreImagesInTiff)
        => /\ ~(/\ hist.before.good
                /\ hist.before.next_ifd_offset > 0
                /\ hist.before.next_ifd_offset < rf.size)
           /\ frame = hist.before.frame
           /\ good = hist.before.good
           /\ rf.next_ifd_offset = hist.before.next_ifd_offset

====
